---- MODULE Spec2Model ----
(***************************************************************************)
(* Model of src/dbg/symbolinfo.cpp (x64dbg): symbol enumeration (SymEnum), *)
(* remote symbol synchronisation (SymDownloadAllSymbols), the name /       *)
(* address resolvers (SymAddrFromName, SymGetSymbolicName), the source     *)
(* line resolver (SymGetSourceLine) and the module list publisher          *)
(* (SymUpdateModuleList).                                                  *)
(*                                                                         *)
(* C strings are sequences of one-character strings; a null pointer is the *)
(* value NULL.                                                             *)
(***************************************************************************)
EXTENDS Integers, Sequences, FiniteSets, TLC

VARIABLES
    op,         \* the operation under way: "resolve", "download", "enum",
                \* "sourceline" or "publish"
    pc,         \* position inside the operation
    \* ---- SymAddrFromName / SymGetSymbolicName
    arg,        \* the arguments of the call and the collaborators' answers
    res,        \* what the call returned and did
    \* ---- SymDownloadAllSymbols
    engine,     \* the symbol engine's global state [searchPath, options]
    pre,        \* engine at the moment SymDownloadAllSymbols was entered
    modList,    \* the module snapshot (SymGetModuleList)
    dl,         \* locals of SymDownloadAllSymbols and what it has done
    calls,      \* engine calls made for the module being processed
    processed,  \* the modules whose processing has begun, in order
    \* ---- SymEnum
    modules,    \* the module directory: the loaded modules, in load order
    LockModules,\* number of shared holders of the module directory lock
    en,         \* locals of the enumeration: [i, j, info, suppressed, cbRet]
    sym,        \* the SYMBOLINFO handed to the visitor by the last callback
    order,      \* the visitor's calls so far: [kind, ret]
    \* ---- SymGetSourceLine (its arguments and outputs are arg and res)
    sl,         \* locals of SymGetSourceLine: [modInfo, sym]
    \* ---- SymUpdateModuleList
    pub,        \* locals of SymUpdateModuleList: [modList, moduleCount, data]
    gui         \* the GuiSymbolUpdateModuleList calls made so far

vars == <<op, pc, arg, res, modules, engine, pre, modList, dl, calls,
          processed, LockModules, en, sym, order, sl, pub, gui>>

NULL == "NULL"

(***************************************************************************)
(* Strings.                                                                *)
(***************************************************************************)
Min(a, b) == IF a < b THEN a ELSE b

Upper == <<"A","B","C","D","E","F","G","H","I","J","K","L","M",
           "N","O","P","Q","R","S","T","U","V","W","X","Y","Z">>

Lower == <<"a","b","c","d","e","f","g","h","i","j","k","l","m",
           "n","o","p","q","r","s","t","u","v","w","x","y","z">>

\* tolower of one character
ToLowerChar(c) ==
    IF \E i \in 1..26 : Upper[i] = c
    THEN Lower[CHOOSE i \in 1..26 : Upper[i] = c]
    ELSE c

ToLowerStr(s) == [i \in 1..Len(s) |-> ToLowerChar(s[i])]

\* the first n characters of s (all of s when it is shorter)
Left(s, n) == SubSeq(s, 1, Min(n, Len(s)))

\* strncmp(a, b, n) == 0
strncmp0(a, b, n) == Left(a, n) = Left(b, n)

\* _strnicmp(a, b, n) == 0
strnicmp0(a, b, n) == Left(ToLowerStr(a), n) = Left(ToLowerStr(b), n)

\* strstr(s, p) != NULL
strstr(s, p) ==
    \E i \in 1..(Len(s) - Len(p) + 1) : SubSeq(s, i, i + Len(p) - 1) = p

\* strncpy_s(dest, cap, src, _TRUNCATE): at most cap - 1 characters
strncpy_s(cap, src) == Left(src, cap - 1)

HexDigits == <<"0","1","2","3","4","5","6","7","8","9","A","B","C","D","E","F">>

RECURSIVE HexN(_, _)
\* v as n upper-case hexadecimal digits, zero padded
HexN(v, n) ==
    IF n = 0 THEN <<>>
    ELSE Append(HexN(v \div 16, n - 1), HexDigits[(v % 16) + 1])

sOrdinal == <<"O","r","d","i","n","a","l">>
sImp     == <<"_","_","i","m","p","_">>
sEntry   == <<"O","p","t","i","o","n","a","l","H","e","a","d","e","r",".",
              "A","d","d","r","e","s","s","O","f","E","n","t","r","y",
              "P","o","i","n","t">>

(***************************************************************************)
(* Values the variables of the operations not under way are parked at.     *)
(***************************************************************************)
ResolveIdle  == arg = NULL /\ res = NULL

DownloadIdle ==
    /\ engine = NULL /\ pre = NULL /\ modList = <<>> /\ dl = NULL
    /\ calls = <<>> /\ processed = <<>>

EnumIdle ==
    /\ LockModules = 0 /\ en = NULL /\ sym = NULL /\ order = <<>>

SourceLineIdle == sl = NULL

PublishIdle == pub = NULL /\ gui = <<>>

resolveVars  == <<arg, res>>

sourceLineVars == <<sl>>

publishVars == <<pub, gui>>

downloadVars == <<engine, pre, modList, dl, calls, processed>>

enumVars     == <<LockModules, en, sym, order>>

(***************************************************************************)
(* SymAddrFromName (lines 258-283).                                        *)
(***************************************************************************)
NamePrefixes ==
    { <<>>, sOrdinal, ToLowerStr(sOrdinal),
      <<"O","R","D","I","N","A","L">>, <<"O","r","d","i","n","a">>,
      sImp, <<"x">> }

NameSuffixes == { <<>>, <<"5">>, <<"f">>, sOrdinal }

\* names a caller may pass
NameInputs == { p \o s : p \in NamePrefixes, s \in NameSuffixes }

\* addresses the engine may answer with
EngineAddrs == { 4198400, 4198416 }

\* what the caller's output cell holds before the call
CellInputs == { 0, 4198400 }

\* Name is a null pointer when NameNull holds (Name is then <<>>)
ArgsAddrFromName ==
    [fn : {"SymAddrFromName"}, NameNull : {FALSE}, Name : NameInputs,
     Address : {NULL, "ptr"}, cell : CellInputs]
    \cup
    [fn : {"SymAddrFromName"}, NameNull : {TRUE}, Name : {<<>>},
     Address : {NULL, "ptr"}, cell : CellInputs]

\* the early returns of lines 260-268, with the ordinal test case-sensitive
AddrFromNameRejects_CaseSensitive(NameNull, Name, Address) ==
    \/ NameNull
    \/ Name = <<>>
    \/ Address = NULL
    \/ strncmp0(Name, sOrdinal, 7)

\* the early returns of lines 260-268
AddrFromNameRejects(NameNull, Name, Address) ==
    \/ NameNull
    \/ Name = <<>>
    \/ Address = NULL
    \/ strnicmp0(Name, sOrdinal, 7)

\* the whole call; SafeSymFromName's answer is drawn when it is asked
SymAddrFromName ==
    /\ op = "resolve" /\ pc = "call" /\ arg.fn = "SymAddrFromName"
    /\ IF AddrFromNameRejects(arg.NameNull, arg.Name, arg.Address)
       THEN res' = [ret |-> FALSE, fromNameCalls |-> 0, found |-> FALSE,
                    engineAddr |-> 0, cell |-> arg.cell, writes |-> 0]
       ELSE \/ res' = [ret |-> FALSE, fromNameCalls |-> 1, found |-> FALSE,
                       engineAddr |-> 0, cell |-> arg.cell, writes |-> 0]
            \/ \E a \in EngineAddrs :
                   res' = [ret |-> TRUE, fromNameCalls |-> 1, found |-> TRUE,
                           engineAddr |-> a, cell |-> a, writes |-> 1]
    /\ pc' = "done"
    /\ UNCHANGED <<op, arg, modules, downloadVars, enumVars,
                   sourceLineVars, publishVars>>

(***************************************************************************)
(* SymGetSymbolicName (lines 285-307).                                     *)
(***************************************************************************)
Addresses == { 0, 4198400, 2147353344 }

ModNames  == { <<"n","t","d","l","l">>, <<"a">> }

Labels    == { <<"m","a","i","n">>, <<"L">> }

\* sizeof(void*) of the x32 and the x64 build
PtrBytes  == { 4, 8 }

ArgsSymbolicName ==
    [fn : {"SymGetSymbolicName"}, Address : Addresses,
     hasModule : BOOLEAN, modname : ModNames,
     hasLabel : BOOLEAN, label : Labels, ptrBytes : PtrBytes]

\* "%p" of the MSVC runtime: zero padded upper-case hexadecimal
FormatPtr(a, bytes) == HexN(a, 2 * bytes)

\* the module test taking precedence over the label test
SymbolicName_ModuleFirst(a) ==
    IF a.hasModule
    THEN a.modname \o <<".">> \o FormatPtr(a.Address, a.ptrBytes)
    ELSE IF a.hasLabel THEN <<"<">> \o a.label \o <<">">> ELSE <<>>

\* the returned string
SymbolicName(a) ==
    IF ~a.hasLabel
    THEN IF a.hasModule
         THEN a.modname \o <<".">> \o FormatPtr(a.Address, a.ptrBytes)
         ELSE <<>>
    ELSE IF a.hasModule
         THEN <<"<">> \o a.modname \o <<".">> \o a.label \o <<">">>
         ELSE <<"<">> \o a.label \o <<">">>

SymGetSymbolicName ==
    /\ op = "resolve" /\ pc = "call" /\ arg.fn = "SymGetSymbolicName"
    /\ res' = [str |-> SymbolicName(arg)]
    /\ pc' = "done"
    /\ UNCHANGED <<op, arg, modules, downloadVars, enumVars,
                   sourceLineVars, publishVars>>

InitResolve ==
    /\ op = "resolve" /\ pc = "call"
    /\ arg \in ArgsAddrFromName \cup ArgsSymbolicName
    /\ res = NULL
    /\ modules = <<>>
    /\ DownloadIdle /\ EnumIdle /\ SourceLineIdle /\ PublishIdle

NextResolve == SymAddrFromName \/ SymGetSymbolicName

SpecResolve == InitResolve /\ [][NextResolve]_vars

(***************************************************************************)
(* Claims about the resolvers.                                             *)
(***************************************************************************)
RECURSIVE HexValue(_)
\* the number a sequence of hexadecimal digits denotes (-1: not hexadecimal)
HexValue(s) ==
    IF s = <<>> THEN 0
    ELSE LET d    == s[Len(s)]
             rest == HexValue(SubSeq(s, 1, Len(s) - 1))
         IN  IF rest < 0 \/ ~(\E i \in 1..16 : HexDigits[i] = d) THEN -1
             ELSE 16 * rest + (CHOOSE i \in 1..16 : HexDigits[i] = d) - 1

SymbolicNameDone ==
    op = "resolve" /\ pc = "done" /\ arg.fn = "SymGetSymbolicName"

AddrFromNameDone ==
    op = "resolve" /\ pc = "done" /\ arg.fn = "SymAddrFromName"

BeginsOrdinalAnyCase(Name) ==
    /\ Len(Name) >= 7
    /\ \A i \in 1..7 : ToLowerChar(Name[i]) = ToLowerChar(sOrdinal[i])

\* a name that begins with "Ordinal" exactly as spelled
BeginsOrdinalExact(Name) ==
    Len(Name) >= 7 /\ SubSeq(Name, 1, 7) = sOrdinal

\* what C7 asks of a finished call, given which inputs count as invalid
AddrFromNameContract(invalid) ==
    IF invalid
    THEN /\ res.ret = FALSE /\ res.fromNameCalls = 0
         /\ res.writes = 0 /\ res.cell = arg.cell
    ELSE /\ res.fromNameCalls = 1
         /\ res.ret = res.found
         /\ res.found => res.writes = 1 /\ res.cell = res.engineAddr
         /\ ~res.found => res.writes = 0 /\ res.cell = arg.cell

\* C7 (as amended): SymAddrFromName fails with no engine call and no write
\* when the name is null or empty, begins with "Ordinal" in any letter case,
\* or the output pointer is null; otherwise it makes exactly one engine
\* lookup and succeeds, storing the engine's address, iff the lookup does.
C7_AddrFromNameFailFast ==
    AddrFromNameDone =>
        AddrFromNameContract(\/ arg.NameNull \/ arg.Name = <<>>
                             \/ arg.Address = NULL
                             \/ BeginsOrdinalAnyCase(arg.Name))

\* C7 witness: "ORDINAL5" was refused without asking the engine.
C7_Witness ==
    /\ AddrFromNameDone
    /\ arg.Name = <<"O","R","D","I","N","A","L","5">> /\ arg.Address # NULL
    /\ res.ret = FALSE /\ res.fromNameCalls = 0

\* C7 as stated: only names beginning with "Ordinal" as spelled (or empty
\* ones, or a null output pointer) are refused; every other call makes
\* exactly one engine lookup.
C7_Original ==
    AddrFromNameDone =>
        AddrFromNameContract(\/ arg.NameNull \/ arg.Name = <<>>
                             \/ arg.Address = NULL
                             \/ BeginsOrdinalExact(arg.Name))

(***************************************************************************)
(* The module directory and SymGetModuleList (lines 114-125).              *)
(***************************************************************************)
\* the most modules the directory holds
MaxModules == 2

\* the i-th module the debuggee loads: its image, its entry point, its
\* SymbolSource pointer `symbols` ("null", "empty" for &EmptySymbolSource,
\* "source" for a source of its own), whether that source is open and the
\* line records [rva, lineNumber, sourceFile] it holds
ModuleAt(i) ==
    [base |-> 4194304 + 1048576 * i,
     size |-> 65536,
     name |-> <<"m", HexDigits[i + 1]>>,
     extension |-> IF i % 2 = 1 THEN <<".", "e", "x", "e">>
                                ELSE <<".", "d", "l", "l">>,
     entry |-> 4194304 + 1048576 * i + 4096,
     symbolsOpen |-> TRUE,
     symbols |-> "source",
     lines |-> {}]

Directory(n) == [i \in 1..n |-> ModuleAt(i)]

\* the list ModEnum's callback builds: {base, name + extension} per module
SymGetModuleList(directory) ==
    [i \in 1..Len(directory) |->
        [base |-> directory[i].base,
         name |-> directory[i].name \o directory[i].extension]]

(***************************************************************************)
(* SymDownloadAllSymbols (lines 149-256).  The empty WString is <<>>.      *)
(***************************************************************************)
SYMOPT_IGNORE_CVREC == 128

MAX_PATH == 260

DefaultSymbolStore ==
    <<"h","t","t","p","s",":","/","/","m","s","d","l",".","m","i",
      "c","r","o","s","o","f","t",".","c","o","m","/","d","o","w",
      "n","l","o","a","d","/","s","y","m","b","o","l","s">>

szSymbolCachePath == <<"C",":","\\","c">>

\* a search path of more characters than oldSearchPath[MAX_PATH] holds
LongSearchPath == [i \in 1..(MAX_PATH + 4) |-> IF i % 8 = 0 THEN ";" ELSE "p"]

\* search paths the engine may hold when the call is made
PathInputs == { <<"C",":","\\","s">>, <<>>, LongSearchPath }

\* option flags the engine may hold when the call is made
OptionInputs == { 6, 128, 134 }

\* o with the bits of flag cleared (flag a power of two): o & ~flag
ClearFlag(o, flag) == o - ((o \div flag) % 2) * flag

\* the options left as they are, the plausible slip for line 179
RelaxedOptions_Unchanged(o) == o

\* symOptions & ~SYMOPT_IGNORE_CVREC (line 179)
RelaxedOptions(o) == ClearFlag(o, SYMOPT_IGNORE_CVREC)

\* sprintf_s(customSearchPath, "SRV*%s*%s", szSymbolCachePath, SymbolStore)
CustomSearchPath(store) ==
    <<"S","R","V","*">> \o szSymbolCachePath \o <<"*">> \o store

\* search_paths[] (lines 181-185)
search_paths(d) == << <<>>, d.customSearchPath >>

NumSearchPaths == 2

\* the locals before the first statement
DlLocals(storeNull, store) ==
    [StoreNull |-> storeNull, SymbolStore |-> store,
     oldSearchPath |-> <<>>, customSearchPath |-> <<>>, symOptions |-> 0,
     m |-> 0, k |-> 0, getPath |-> "notcalled", mutatorCalled |-> FALSE,
     unresolved |-> {}, restores |-> 0, restorePath |-> "notcalled",
     attempts |-> 0, lastStatus |-> "none"]

\* one more engine call recorded for the module being processed
Called(fn, ok) == Append(calls, [fn |-> fn, k |-> dl.k, ok |-> ok])

\* where the loops stand after this module is finished with
NextModule(d) ==
    IF d.m < Len(modList)
    THEN [pc |-> "setpath", m |-> d.m + 1, k |-> 1]
    ELSE [pc |-> "restoreopts", m |-> d.m, k |-> d.k]

\* a failure that ends the whole reload loop, the plausible slip
Continue_LeaveLoop(d) == [pc |-> "restoreopts", m |-> d.m, k |-> d.k]

\* `continue` in the candidate loop (lines 197, 206, 212, 218, 229) and
\* falling off its end with status 0
Continue(d) ==
    IF d.k < NumSearchPaths
    THEN [pc |-> "setpath", m |-> d.m, k |-> d.k + 1]
    ELSE NextModule(d)

\* `break` out of the candidate loop (line 247)
Break(d) == NextModule(d)

\* moves the loops to `to` after the call logged last in `log`, the locals
\* being d.  A module left without a debug database (no `break`) is noted
\* in unresolved; the call log starts afresh with the next module.
GotoFrom(d, to, log, broke) ==
    /\ pc' = to.pc
    /\ dl' = [d EXCEPT !.m = to.m, !.k = to.k,
                       !.unresolved = IF to.k = dl.k + 1 \/ broke THEN @
                                      ELSE @ \cup {dl.m}]
    /\ calls' = IF to.m # dl.m THEN <<>> ELSE log

Goto(to, log, broke) == GotoFrom(dl, to, log, broke)

\* the snapshot step without the test of line 162
DlSnapshot_NoEmptyTest ==
    /\ op = "download" /\ pc = "snapshot"
    /\ modList' = SymGetModuleList(modules)
    /\ dl' = [dl EXCEPT !.SymbolStore =
                 IF dl.StoreNull THEN DefaultSymbolStore ELSE @]
    /\ pc' = "getpath"
    /\ UNCHANGED <<op, modules, engine, pre, calls, processed,
                   resolveVars, enumVars,
                   sourceLineVars, publishVars>>

\* lines 152-163: default store, snapshot, return when there is no module
DlSnapshot ==
    /\ op = "download" /\ pc = "snapshot"
    /\ modList' = SymGetModuleList(modules)
    /\ dl' = [dl EXCEPT !.SymbolStore =
                 IF dl.StoreNull THEN DefaultSymbolStore ELSE @]
    /\ pc' = IF modList' = <<>> THEN "done" ELSE "getpath"
    /\ UNCHANGED <<op, modules, engine, pre, calls, processed,
                   resolveVars, enumVars,
                   sourceLineVars, publishVars>>

\* lines 165-172: SafeSymGetSearchPathW into oldSearchPath[MAX_PATH], which
\* holds MAX_PATH - 1 characters of the path; return when the call fails
DlGetSearchPath ==
    /\ op = "download" /\ pc = "getpath"
    /\ \E ok \in BOOLEAN :
          IF ok
          THEN /\ dl' = [dl EXCEPT !.oldSearchPath =
                                       Left(engine.searchPath, MAX_PATH - 1),
                                   !.getPath = "ok"]
               /\ pc' = "relax"
          ELSE /\ dl' = [dl EXCEPT !.getPath = "failed"]
               /\ pc' = "done"
    /\ UNCHANGED <<op, modules, engine, pre, modList, calls, processed,
                   resolveVars, enumVars,
                   sourceLineVars, publishVars>>

\* lines 174-185: the custom path, SafeSymGetOptions, SafeSymSetOptions
DlRelax ==
    /\ op = "download" /\ pc = "relax"
    /\ dl' = [dl EXCEPT !.customSearchPath = CustomSearchPath(dl.SymbolStore),
                        !.symOptions = engine.options,
                        !.mutatorCalled = TRUE,
                        !.m = 1, !.k = 1]
    /\ engine' = [engine EXCEPT !.options = RelaxedOptions(engine.options)]
    /\ pc' = IF modList # <<>> THEN "setpath" ELSE "restoreopts"
    /\ UNCHANGED <<op, modules, pre, modList, calls, processed,
                   resolveVars, enumVars,
                   sourceLineVars, publishVars>>

\* lines 192-198: SafeSymSetSearchPathW(cur_path); attempts counts the
\* iterations of the candidate loop begun so far
DlSetSearchPath ==
    /\ op = "download" /\ pc = "setpath"
    /\ processed' = IF dl.k = 1 THEN Append(processed, dl.m) ELSE processed
    /\ \E ok \in BOOLEAN :
          IF ok
          THEN /\ engine' = [engine EXCEPT
                                !.searchPath = search_paths(dl)[dl.k]]
               /\ pc' = "modpath"
               /\ dl' = [dl EXCEPT !.attempts = @ + 1]
               /\ calls' = Called("SetSearchPath", TRUE)
          ELSE /\ engine' = engine
               /\ GotoFrom([dl EXCEPT !.attempts = @ + 1], Continue(dl),
                           Called("SetSearchPath", FALSE), FALSE)
    /\ UNCHANGED <<op, modules, pre, modList, resolveVars, enumVars,
                   sourceLineVars, publishVars>>

\* lines 200-207: GetModuleFileNameExW
DlGetModuleFileName ==
    /\ op = "download" /\ pc = "modpath"
    /\ \E ok \in BOOLEAN :
          IF ok
          THEN /\ pc' = "unload"
               /\ dl' = dl
               /\ calls' = Called("GetModuleFileName", TRUE)
          ELSE Goto(Continue(dl), Called("GetModuleFileName", FALSE), FALSE)
    /\ UNCHANGED <<op, modules, engine, pre, modList, processed,
                   resolveVars, enumVars,
                   sourceLineVars, publishVars>>

\* the unload whose failure is only logged
DlUnload_FailureIgnored ==
    /\ op = "download" /\ pc = "unload"
    /\ \E ok \in BOOLEAN :
          /\ pc' = "load"
          /\ dl' = dl
          /\ calls' = Called("UnloadModule", ok)
    /\ UNCHANGED <<op, modules, engine, pre, modList, processed,
                   resolveVars, enumVars,
                   sourceLineVars, publishVars>>

\* lines 209-213: SafeSymUnloadModule64
DlUnload ==
    /\ op = "download" /\ pc = "unload"
    /\ \E ok \in BOOLEAN :
          IF ok
          THEN /\ pc' = "load"
               /\ dl' = dl
               /\ calls' = Called("UnloadModule", TRUE)
          ELSE Goto(Continue(dl), Called("UnloadModule", FALSE), FALSE)
    /\ UNCHANGED <<op, modules, engine, pre, modList, processed,
                   resolveVars, enumVars,
                   sourceLineVars, publishVars>>

\* lines 215-219: SafeSymLoadModuleExW
DlLoad ==
    /\ op = "download" /\ pc = "load"
    /\ \E ok \in BOOLEAN :
          IF ok
          THEN /\ pc' = "modinfo"
               /\ dl' = dl
               /\ calls' = Called("LoadModule", TRUE)
          ELSE Goto(Continue(dl), Called("LoadModule", FALSE), FALSE)
    /\ UNCHANGED <<op, modules, engine, pre, modList, processed,
                   resolveVars, enumVars,
                   sourceLineVars, publishVars>>

\* SYM_TYPE values the engine reports
SymTypes == { "SymPdb", "SymExport", "SymDeferred" }

\* export symbols taken for a proper load
LoadStatus_ExportToo(SymType) == SymType \in {"SymPdb", "SymExport"}

\* the switch of lines 232-244
LoadStatus(SymType) == SymType = "SymPdb"

\* lines 221-248: SafeSymGetModuleInfoW64 and the classification;
\* lastStatus keeps info.SymType, or "failed" when the call failed
DlGetModuleInfo ==
    /\ op = "download" /\ pc = "modinfo"
    /\ \/ GotoFrom([dl EXCEPT !.lastStatus = "failed"], Continue(dl),
                   Called("GetModuleInfo", FALSE), FALSE)
       \/ \E t \in SymTypes :
             IF LoadStatus(t)
             THEN GotoFrom([dl EXCEPT !.lastStatus = t], Break(dl),
                           Called("GetModuleInfo", TRUE), TRUE)
             ELSE GotoFrom([dl EXCEPT !.lastStatus = t], Continue(dl),
                           Called("GetModuleInfo", TRUE), FALSE)
    /\ UNCHANGED <<op, modules, engine, pre, modList, processed,
                   resolveVars, enumVars,
                   sourceLineVars, publishVars>>

\* the option flags left relaxed, the plausible slip for line 251
DlRestoreOptions_Skipped ==
    /\ op = "download" /\ pc = "restoreopts"
    /\ dl' = [dl EXCEPT !.restores = @ + 1]
    /\ pc' = "restorepath"
    /\ UNCHANGED <<op, modules, engine, pre, modList, calls, processed,
                   resolveVars, enumVars,
                   sourceLineVars, publishVars>>

\* line 251: SafeSymSetOptions(symOptions)
DlRestoreOptions ==
    /\ op = "download" /\ pc = "restoreopts"
    /\ engine' = [engine EXCEPT !.options = dl.symOptions]
    /\ dl' = [dl EXCEPT !.restores = @ + 1]
    /\ pc' = "restorepath"
    /\ UNCHANGED <<op, modules, pre, modList, calls, processed,
                   resolveVars, enumVars,
                   sourceLineVars, publishVars>>

\* lines 253-255: SafeSymSetSearchPathW(oldSearchPath), a failure only logged
DlRestoreSearchPath ==
    /\ op = "download" /\ pc = "restorepath"
    /\ \E ok \in BOOLEAN :
          /\ engine' = IF ok
                       THEN [engine EXCEPT !.searchPath = dl.oldSearchPath]
                       ELSE engine
          /\ dl' = [dl EXCEPT !.restores = @ + 1,
                              !.restorePath = IF ok THEN "ok" ELSE "failed"]
    /\ pc' = "done"
    /\ UNCHANGED <<op, modules, pre, modList, calls, processed,
                   resolveVars, enumVars,
                   sourceLineVars, publishVars>>

InitDownload ==
    /\ op = "download" /\ pc = "snapshot"
    /\ \E n \in 0..MaxModules : modules = Directory(n)
    /\ engine \in [searchPath : PathInputs, options : OptionInputs]
    /\ pre = engine
    /\ modList = <<>>
    /\ \E storeNull \in BOOLEAN :
          dl = DlLocals(storeNull,
                        IF storeNull THEN <<>> ELSE <<"\\","\\","s","\\","p">>)
    /\ calls = <<>> /\ processed = <<>>
    /\ ResolveIdle /\ EnumIdle /\ SourceLineIdle /\ PublishIdle

NextDownload ==
    \/ DlSnapshot
    \/ DlGetSearchPath
    \/ DlRelax
    \/ DlSetSearchPath
    \/ DlGetModuleFileName
    \/ DlUnload
    \/ DlLoad
    \/ DlGetModuleInfo
    \/ DlRestoreOptions
    \/ DlRestoreSearchPath

SpecDownload == InitDownload /\ [][NextDownload]_vars

(***************************************************************************)
(* Claims about SymDownloadAllSymbols.                                     *)
(***************************************************************************)
DownloadReturned == op = "download" /\ pc = "done"

\* the call got past saving the search path, into the per-module phase
ReachedModules == dl.getPath = "ok"

C3_AbortLeavesEngineAlone ==
    DownloadReturned /\ (modules = <<>> \/ dl.getPath = "failed") =>
        /\ engine = pre
        /\ ~dl.mutatorCalled
        /\ calls = <<>> /\ processed = <<>>
        /\ dl.restores = 0

\* C3 witness: two modules were loaded and reading the search path failed.
C3_Witness ==
    /\ DownloadReturned
    /\ Len(modules) = 2 /\ dl.getPath = "failed"
    /\ engine = pre

\* the per-module loop is over: the restore step has been reached
LoopOver ==
    pc \in {"restoreopts", "restorepath"} \/ (pc = "done" /\ ReachedModules)

\* C4: the modules' first candidate attempts are started in snapshot order,
\* and once the loop is over (so before anything is restored) every module
\* of the snapshot has had its first attempt started, whichever engine
\* calls failed for the modules before it.
C4_EveryModuleAttempted ==
    op = "download" =>
        /\ processed = [i \in 1..Len(processed) |-> i]
        /\ Len(processed) <= Len(modList)
        /\ LoopOver => Len(processed) = Len(modList)
        /\ dl.restores > 0 => LoopOver

\* C4 witness: the first module was left without a debug database and the
\* second module's first attempt has been started all the same.
C4_Witness ==
    /\ op = "download" /\ pc = "modpath"
    /\ 1 \in dl.unresolved
    /\ processed = <<1, 2>> /\ dl.m = 2 /\ dl.k = 1

\* the engine calls of a candidate attempt, in the order of lines 193-224
AttemptOrder ==
    <<"SetSearchPath", "GetModuleFileName", "UnloadModule", "LoadModule",
      "GetModuleInfo">>

\* the calls logged for candidate k of the module being processed
CallsOf(k) == SelectSeq(calls, LAMBDA c : c.k = k)

\* the per-module loop is running
InModulePhase ==
    op = "download"
    /\ pc \in {"setpath", "modpath", "unload", "load", "modinfo"}

\* C14: a failure to resolve the image path, to unload or to load, in a
\* candidate attempt, ends the processing of the module: the failed call is
\* the last one made for the module, and no further candidate is begun for
\* it.
C14_Original ==
    op = "download" =>
        \A i \in 1..Len(calls) :
            /\ calls[i].fn \in {"GetModuleFileName", "UnloadModule",
                                "LoadModule"}
            /\ ~calls[i].ok
            => /\ i = Len(calls)
               /\ ~(pc = "setpath" /\ dl.k = calls[i].k + 1)

\* C15: a module gets at most two candidate attempts, the first under the
\* empty search path and the second under "SRV*<cache>*<store>".  A module
\* info status of SymPdb ends the module's processing; any other status,
\* from the first candidate, is followed by the second candidate.  No more
\* than two attempts a module are begun in all.
C15_CandidateAttempts ==
    [][ op = "download" =>
          /\ dl'.attempts <= 2 * Len(modList')
          /\ InModulePhase' => dl'.k \in {1, 2}
          /\ pc = "setpath" =>
                /\ dl'.attempts = dl.attempts + 1
                /\ Len(CallsOf(1)) > 0 <=> dl.k = 2
                /\ CallsOf(2) = <<>>
                /\ pc' = "modpath" =>
                      engine'.searchPath =
                          IF dl.k = 1 THEN <<>>
                          ELSE <<"S","R","V","*">> \o szSymbolCachePath
                                   \o <<"*">>
                                   \o (IF dl.StoreNull THEN DefaultSymbolStore
                                       ELSE dl.SymbolStore)
          /\ pc = "modinfo" /\ pc' # "modinfo" =>
                LET ended == \/ pc' = "restoreopts" /\ dl.m = Len(modList)
                             \/ /\ pc' = "setpath"
                                /\ dl'.m = dl.m + 1 /\ dl'.k = 1
                IN  IF dl'.lastStatus = "SymPdb"
                    THEN ended /\ dl.m \notin dl'.unresolved
                    ELSE IF dl.k = 1
                    THEN pc' = "setpath" /\ dl'.m = dl.m /\ dl'.k = 2
                    ELSE ended /\ dl.m \in dl'.unresolved ]_vars

\* C15 witness: the first module's first candidate ended with SymExport and
\* its second with SymPdb; the second module's first candidate is under
\* way, the third attempt of the call.
C15_Witness ==
    /\ op = "download" /\ pc = "modpath"
    /\ dl.m = 2 /\ dl.k = 1 /\ dl.attempts = 3
    /\ dl.lastStatus = "SymPdb" /\ dl.unresolved = {}
    /\ engine.searchPath = <<>>

\* C15 second case: SymPdb came from the first candidate of the first
\* module, and the second module was begun next.
C15_WitnessFirstCandidate ==
    /\ op = "download" /\ pc = "modpath"
    /\ dl.m = 2 /\ dl.k = 1 /\ dl.attempts = 2
    /\ dl.lastStatus = "SymPdb" /\ dl.unresolved = {}

\* C17: in the per-module loop, and up to SafeSymSetOptions(symOptions),
\* the engine's option flags are the ones it had before the call with the
\* SYMOPT_IGNORE_CVREC bit (0x80) clear and every other bit as it was,
\* whatever became of the modules processed before.
C17_OptionsRelaxedThroughout ==
    InModulePhase \/ (op = "download" /\ pc = "restoreopts") =>
        /\ (engine.options \div 128) % 2 = 0
        /\ engine.options % 128 = pre.options % 128
        /\ engine.options \div 256 = pre.options \div 256
        /\ dl.symOptions = pre.options

\* C17 witness: the engine had the flag and two others set; the first
\* module was left without a debug database and the second is about to be
\* loaded with the flag clear and the two others set.
C17_Witness ==
    /\ op = "download" /\ pc = "load"
    /\ pre.options = 134 /\ engine.options = 6
    /\ dl.m = 2 /\ 1 \in dl.unresolved

\* C18: the calls of one candidate attempt are made in the order
\* SafeSymSetSearchPathW, GetModuleFileNameExW, SafeSymUnloadModule64,
\* SafeSymLoadModuleExW, SafeSymGetModuleInfoW64, each after the one before
\* it has succeeded; the module info query is the step that follows a
\* successful load.
C18_AttemptCallOrder ==
    op = "download" =>
        /\ \A i, j \in 1..Len(calls) : i < j => calls[i].k <= calls[j].k
        /\ \A k \in 1..NumSearchPaths :
              LET a == CallsOf(k)
              IN  /\ Len(a) <= Len(AttemptOrder)
                  /\ \A i \in 1..Len(a) :
                        /\ a[i].fn = AttemptOrder[i]
                        /\ i < Len(a) => a[i].ok
        /\ pc = "modpath" => calls[Len(calls)].fn = "SetSearchPath"
        /\ pc = "unload" => calls[Len(calls)].fn = "GetModuleFileName"
        /\ pc = "load" => calls[Len(calls)].fn = "UnloadModule"
        /\ pc = "modinfo" => calls[Len(calls)].fn = "LoadModule"
        /\ pc \in {"modpath", "unload", "load", "modinfo"} =>
              calls[Len(calls)].ok /\ calls[Len(calls)].k = dl.k
        /\ calls # <<>> /\ calls[Len(calls)].fn = "LoadModule"
              /\ calls[Len(calls)].ok => pc = "modinfo"

\* C18 witness: the five calls of the first candidate were all made, the
\* last answering with a status other than SymPdb, and the second candidate
\* has got as far as a successful load.
C18_Witness ==
    /\ op = "download" /\ pc = "modinfo" /\ dl.k = 2
    /\ [i \in 1..Len(calls) |-> calls[i].fn]
           = AttemptOrder \o SubSeq(AttemptOrder, 1, 4)
    /\ \A i \in 1..Len(calls) : calls[i].ok

(***************************************************************************)
(* SymUpdateModuleList (lines 127-147).  A GuiSymbolUpdateModuleList call  *)
(* is recorded as [count, dataNull, data].                                 *)
(***************************************************************************)
\* module names and extensions the directory may hold
PublishNames == { <<"a">>, <<"k","3","2">>, <<"n","t">> }

PublishExtensions == { <<".","e","x","e">>, <<".","d","l","l">>, <<>> }

\* the directories SymUpdateModuleList is called with
PublishDirectories ==
    UNION { { [i \in 1..n |-> [ModuleAt(i) EXCEPT !.name = ne[i][1],
                                                  !.extension = ne[i][2]]] :
                ne \in [1..n -> PublishNames \X PublishExtensions] } :
            n \in 0..MaxModules }

\* line 124: what SymGetModuleList returns
SymGetModuleListReturn == TRUE

\* the locals before the first statement
UpdLocals == [modList |-> <<>>, moduleCount |-> 0, data |-> <<>>]

\* lines 129-136: the list is built; were the call to fail, the GUI would be
\* sent (0, nullptr)
UpdGetModuleList ==
    /\ op = "publish" /\ pc = "call"
    /\ pub' = [pub EXCEPT !.modList = SymGetModuleList(modules)]
    /\ IF ~SymGetModuleListReturn
       THEN /\ gui' = Append(gui, [count |-> 0, dataNull |-> TRUE,
                                   data |-> <<>>])
            /\ pc' = "done"
       ELSE /\ gui' = gui
            /\ pc' = "copy"
    /\ UNCHANGED <<op, modules, resolveVars, downloadVars, enumVars,
                   sourceLineVars>>

\* lines 139-143: BridgeAlloc of moduleCount entries and the memcpy
UpdCopy ==
    /\ op = "publish" /\ pc = "copy"
    /\ pub' = [pub EXCEPT !.moduleCount = Len(pub.modList),
                          !.data = [i \in 1..Len(pub.modList) |->
                                        pub.modList[i]]]
    /\ pc' = "send"
    /\ UNCHANGED <<op, modules, gui, resolveVars, downloadVars, enumVars,
                   sourceLineVars>>

\* the GUI left alone when there is nothing to show
UpdSend_EmptySuppressed ==
    /\ op = "publish" /\ pc = "send"
    /\ gui' = IF pub.moduleCount = 0 THEN gui
              ELSE Append(gui, [count |-> pub.moduleCount,
                                dataNull |-> FALSE, data |-> pub.data])
    /\ pc' = "done"
    /\ UNCHANGED <<op, modules, pub, resolveVars, downloadVars, enumVars,
                   sourceLineVars>>

\* line 146: GuiSymbolUpdateModuleList((int)moduleCount, data)
UpdSend ==
    /\ op = "publish" /\ pc = "send"
    /\ gui' = Append(gui, [count |-> pub.moduleCount, dataNull |-> FALSE,
                           data |-> pub.data])
    /\ pc' = "done"
    /\ UNCHANGED <<op, modules, pub, resolveVars, downloadVars, enumVars,
                   sourceLineVars>>

InitPublish ==
    /\ op = "publish" /\ pc = "call"
    /\ modules \in PublishDirectories
    /\ pub = UpdLocals /\ gui = <<>>
    /\ ResolveIdle /\ DownloadIdle /\ EnumIdle /\ SourceLineIdle

NextPublish ==
    \/ UpdGetModuleList
    \/ UpdCopy
    \/ UpdSend

SpecPublish == InitPublish /\ [][NextPublish]_vars

\* C11: a call of SymUpdateModuleList makes one GuiSymbolUpdateModuleList
\* call, its last step, and none before: with as many entries as the
\* directory has modules, entry i holding the base of module i and its name
\* followed by its extension; with no module the call is made all the same,
\* with count 0 and no entry.
C11_PublishesOnce ==
    op = "publish" =>
        /\ pc # "done" => gui = <<>>
        /\ pc = "done" =>
              /\ Len(gui) = 1
              /\ gui[1].count = Len(modules)
              /\ Len(gui[1].data) = gui[1].count
              /\ \A i \in 1..Len(modules) :
                    /\ gui[1].data[i].base = modules[i].base
                    /\ gui[1].data[i].name
                           = modules[i].name \o modules[i].extension
              /\ modules = <<>> => gui[1].count = 0 /\ gui[1].data = <<>>

\* C11 witness: "k32.dll" and "a" (no extension), loaded in that order,
\* were published in that order.
C11_Witness ==
    /\ op = "publish" /\ pc = "done" /\ Len(gui) = 1
    /\ gui[1].count = 2
    /\ gui[1].data[1].name = <<"k","3","2",".","d","l","l">>
    /\ gui[1].data[2].name = <<"a">>
    /\ gui[1].data[1].base < gui[1].data[2].base

\* C11 second case: no module is loaded and a list of no entry was
\* published.
C11_WitnessEmpty ==
    /\ op = "publish" /\ pc = "done" /\ modules = <<>>
    /\ Len(gui) = 1 /\ gui[1].count = 0

(***************************************************************************)
(* The module directory's lookups used by SymEnum.                         *)
(***************************************************************************)
\* the index in the directory of the module that contains addr (0: none)
ModIndexFromAddr(addr) ==
    IF \E i \in 1..Len(modules) :
           modules[i].base <= addr /\ addr < modules[i].base + modules[i].size
    THEN CHOOSE i \in 1..Len(modules) :
           modules[i].base <= addr /\ addr < modules[i].base + modules[i].size
    ELSE 0

\* ModEntryFromAddr: the entry point of the module that contains addr, or 0
ModEntryFromAddr(addr) ==
    IF ModIndexFromAddr(addr) = 0 THEN 0
    ELSE modules[ModIndexFromAddr(addr)].entry

(***************************************************************************)
(* SymEnum and SymEnumImports (lines 22-107).  A SYMBOLINFO's name fields  *)
(* are pointers: to one of the two scratch buffers of SYMBOLCBDATA, to the *)
(* string literal of line 101, or null.                                    *)
(***************************************************************************)
\* the most symbols a SymbolSource yields, and imports the walker yields
MaxSyms == 2

MaxImports == 1

MAX_SYM_NAME == 2000

\* the demangled form used for names that have one
Demangled == <<"f","(",")">>

DecoratedNames ==
    { sOrdinal \o <<"5">>, sImp \o <<"f">>, <<"?","f">>,
      <<"x">> \o sImp \o sOrdinal }

\* what a SymbolSource may yield: a relative address and the two names,
\* the undecorated one empty, equal to the decorated one, or another text
SymbolInfos ==
    { [addr |-> a, decoratedName |-> d, undecoratedName |-> u] :
        a \in {0, 16}, d \in DecoratedNames,
        u \in {<<>>, Demangled} } \cup
    { [addr |-> a, decoratedName |-> d, undecoratedName |-> d] :
        a \in {0, 16}, d \in DecoratedNames }

\* what the import walker may yield
ImportNames == { sImp \o <<"f">>, <<"?","f">>, sOrdinal \o <<"5">> }

\* SafeUnDecorateSymbolName's answers for a name: failure, the name itself
\* or its demangled form
UndecorateResults(name) ==
    { [ok |-> FALSE, text |-> <<>>], [ok |-> TRUE, text |-> name],
      [ok |-> TRUE, text |-> Demangled] }

\* the text a name pointer points at
Deref(ptr, bufs) ==
    CASE ptr = "decoratedBuf"   -> bufs.decorated
      [] ptr = "undecoratedBuf" -> bufs.undecorated
      [] ptr = "entryLiteral"   -> sEntry
      [] OTHER                  -> <<>>

\* the SYMBOLINFO as the visitor reads it
Visible(cur, bufs) ==
    [addr |-> cur.addr,
     decoratedSymbol |-> Deref(cur.decoratedSymbol, bufs),
     decoratedNull |-> cur.decoratedSymbol = NULL,
     undecoratedSymbol |-> Deref(cur.undecoratedSymbol, bufs),
     undecoratedNull |-> cur.undecoratedSymbol = NULL,
     isImported |-> cur.isImported]

\* the ordinal test applied to the name alone
SkipBadOrdinal_AnyAddress(decorated, addr, Base) == strstr(decorated, sOrdinal)

\* lines 74-80: a bad ordinal pointing at the module base
SkipBadOrdinal(decorated, addr, Base) ==
    strstr(decorated, sOrdinal) /\ addr = Base

\* a substring test, the plausible slip for line 90
IsImportThunk_Anywhere(decorated) == strstr(decorated, sImp)

\* line 90: strncmp(curSymbol.decoratedSymbol, "__imp_", 6) == 0
IsImportThunk(decorated) == strncmp0(decorated, sImp, 6)

\* the visitor's answer handed on to enumSymbols
CallbackResult_FromVisitor(ret) == ret

\* lines 79 and 93: the callback given to enumSymbols answers true
CallbackResult(ret) == TRUE

\* lines 85 and 86 the other way round: the field is cleared before it is
\* copied
IndexedSymbol_NullFirst(Base, info) ==
    LET bufs == [decorated   |-> strncpy_s(MAX_SYM_NAME, info.decoratedName),
                 undecorated |-> strncpy_s(MAX_SYM_NAME, info.undecoratedName)]
        same == info.decoratedName = info.undecoratedName
        cur  == [addr |-> Base + info.addr,
                 decoratedSymbol |->
                     IF same THEN NULL ELSE "decoratedBuf",
                 undecoratedSymbol |->
                     IF same THEN NULL ELSE "undecoratedBuf",
                 isImported |-> FALSE]
    IN  Visible([cur EXCEPT !.isImported =
                     IsImportThunk(Deref(cur.decoratedSymbol, bufs))],
                bufs)

\* lines 62-90 for one yielded symbol: the buffers and the SYMBOLINFO
IndexedSymbol(Base, info) ==
    LET bufs == [decorated   |-> strncpy_s(MAX_SYM_NAME, info.decoratedName),
                 undecorated |-> strncpy_s(MAX_SYM_NAME, info.undecoratedName)]
        same == info.decoratedName = info.undecoratedName
        cur  == [addr |-> Base + info.addr,
                 decoratedSymbol |->
                     IF same THEN "undecoratedBuf" ELSE "decoratedBuf",
                 undecoratedSymbol |->
                     IF same THEN NULL ELSE "undecoratedBuf",
                 isImported |-> FALSE]
    IN  Visible([cur EXCEPT !.isImported =
                     IsImportThunk(Deref(cur.decoratedSymbol, bufs))],
                bufs)

\* lines 29-41 for one import: the buffers and the SYMBOLINFO
ImportSymbol(addr, name, undec) ==
    LET bufs == [decorated   |-> strncpy_s(MAX_SYM_NAME, name),
                 undecorated |-> IF undec.ok
                                 THEN strncpy_s(MAX_SYM_NAME, undec.text)
                                 ELSE <<>>]
        cur  == [addr |-> addr,
                 decoratedSymbol |-> "decoratedBuf",
                 undecoratedSymbol |->
                     IF ~undec.ok THEN NULL
                     ELSE IF bufs.decorated = bufs.undecorated THEN NULL
                     ELSE "undecoratedBuf",
                 isImported |-> TRUE]
    IN  Visible(cur, bufs)

\* lines 99-102: the pseudo entry point symbol
EntrySymbol(addr) ==
    Visible([addr |-> addr, decoratedSymbol |-> "entryLiteral",
             undecoratedSymbol |-> NULL, isImported |-> FALSE],
            [decorated |-> <<>>, undecorated |-> <<>>])

\* the locals before the first statement
EnumLocals(Base) ==
    [Base |-> Base, i |-> 0, j |-> 0, suppressed |-> 0,
     info |-> NULL, lastDelivered |-> FALSE, cbRet |-> TRUE]

\* one call of the visitor with symbol s, answering ret
Visit(kind, s, ret) ==
    /\ sym' = s
    /\ order' = Append(order, [kind |-> kind, ret |-> ret])

\* the lookup without the isOpen test of line 56
EnumAcquire_NoOpenTest ==
    /\ op = "enum" /\ pc = "call"
    /\ LockModules' = LockModules + 1
    /\ pc' = IF ModIndexFromAddr(en.Base) # 0 THEN "indexed" ELSE "release"
    /\ UNCHANGED <<op, modules, en, sym, order, resolveVars, downloadVars,
                   sourceLineVars, publishVars>>

\* lines 49-58: SHARED_ACQUIRE, ModInfoFromAddr, isOpen
EnumAcquire ==
    /\ op = "enum" /\ pc = "call"
    /\ LockModules' = LockModules + 1
    /\ pc' = IF /\ ModIndexFromAddr(en.Base) # 0
                /\ modules[ModIndexFromAddr(en.Base)].symbolsOpen
             THEN "indexed" ELSE "release"
    /\ UNCHANGED <<op, modules, en, sym, order, resolveVars, downloadVars,
                   sourceLineVars, publishVars>>

\* lines 60-94: enumSymbols yields one more symbol to the callback
EnumSymbol ==
    /\ op = "enum" /\ pc = "indexed"
    /\ en.cbRet /\ en.i < MaxSyms
    /\ \E info \in SymbolInfos :
          LET s == IndexedSymbol(en.Base, info)
          IN  IF SkipBadOrdinal(strncpy_s(MAX_SYM_NAME, info.decoratedName),
                                s.addr, en.Base)
              THEN /\ en' = [en EXCEPT !.i = @ + 1, !.info = info,
                                       !.suppressed = @ + 1,
                                       !.lastDelivered = FALSE,
                                       !.cbRet = TRUE]
                   /\ UNCHANGED <<sym, order>>
              ELSE \E ret \in BOOLEAN :
                   /\ Visit("indexed", s, ret)
                   /\ en' = [en EXCEPT !.i = @ + 1, !.info = info,
                                       !.lastDelivered = TRUE,
                                       !.cbRet = CallbackResult(ret)]
    /\ UNCHANGED <<op, pc, modules, LockModules, resolveVars, downloadVars,
                   sourceLineVars, publishVars>>

\* enumSymbols returns: the source has no more symbols, or was told to stop
EnumSymbolsEnd ==
    /\ op = "enum" /\ pc = "indexed"
    /\ pc' = "release"
    /\ UNCHANGED <<op, modules, LockModules, en, sym, order,
                   resolveVars, downloadVars,
                   sourceLineVars, publishVars>>

\* the scope left with the lock still held
EnumRelease_Leaked ==
    /\ op = "enum" /\ pc = "release"
    /\ pc' = "entry"
    /\ UNCHANGED <<op, modules, LockModules, en, sym, order,
                   resolveVars, downloadVars,
                   sourceLineVars, publishVars>>

\* line 96: the scope of SHARED_ACQUIRE ends
EnumRelease ==
    /\ op = "enum" /\ pc = "release"
    /\ LockModules' = LockModules - 1
    /\ pc' = "entry"
    /\ UNCHANGED <<op, modules, en, sym, order, resolveVars, downloadVars,
                   sourceLineVars, publishVars>>

\* the pseudo symbol handed over whatever ModEntryFromAddr answered
EnumEntryPoint_Always ==
    /\ op = "enum" /\ pc = "entry"
    /\ \E ret \in BOOLEAN :
          Visit("entry", EntrySymbol(ModEntryFromAddr(en.Base)), ret)
    /\ pc' = "imports"
    /\ UNCHANGED <<op, modules, LockModules, en, resolveVars, downloadVars,
                   sourceLineVars, publishVars>>

\* lines 98-104: the pseudo entry point symbol
EnumEntryPoint ==
    /\ op = "enum" /\ pc = "entry"
    /\ IF ModEntryFromAddr(en.Base) # 0
       THEN \E ret \in BOOLEAN :
                Visit("entry", EntrySymbol(ModEntryFromAddr(en.Base)), ret)
       ELSE UNCHANGED <<sym, order>>
    /\ pc' = "imports"
    /\ UNCHANGED <<op, modules, LockModules, en, resolveVars, downloadVars,
                   sourceLineVars, publishVars>>

\* lines 27-44: apienumimports yields one more import
EnumImport ==
    /\ op = "enum" /\ pc = "imports"
    /\ en.j < MaxImports
    /\ \E name \in ImportNames, addr \in {4198400} :
       \E undec \in UndecorateResults(name), ret \in BOOLEAN :
          Visit("import", ImportSymbol(addr, name, undec), ret)
    /\ en' = [en EXCEPT !.j = @ + 1]
    /\ UNCHANGED <<op, pc, modules, LockModules, resolveVars, downloadVars,
                   sourceLineVars, publishVars>>

\* apienumimports returns, and SymEnum with it
EnumImportsEnd ==
    /\ op = "enum" /\ pc = "imports"
    /\ pc' = "done"
    /\ UNCHANGED <<op, modules, LockModules, en, sym, order,
                   resolveVars, downloadVars,
                   sourceLineVars, publishVars>>

\* the directories SymEnum is called with: empty, or one module
EnumDirectories ==
    { <<>> } \cup
    { << [ModuleAt(1) EXCEPT !.entry = e, !.symbolsOpen = o] >> :
         e \in {0, ModuleAt(1).entry}, o \in BOOLEAN }

InitEnum ==
    /\ op = "enum" /\ pc = "call"
    /\ modules \in EnumDirectories
    /\ en = EnumLocals(ModuleAt(1).base)
    /\ LockModules = 0 /\ sym = NULL /\ order = <<>>
    /\ ResolveIdle /\ DownloadIdle /\ SourceLineIdle /\ PublishIdle

NextEnum ==
    \/ EnumAcquire
    \/ EnumSymbol
    \/ EnumSymbolsEnd
    \/ EnumRelease
    \/ EnumEntryPoint
    \/ EnumImport
    \/ EnumImportsEnd

SpecEnum == InitEnum /\ [][NextEnum]_vars

(***************************************************************************)
(* Claims about SymEnum.                                                   *)
(***************************************************************************)
\* how many visitor calls of a kind there have been
Count(kind) == Cardinality({ i \in 1..Len(order) : order[i].kind = kind })

\* the place of a kind of symbol in the fixed order
Rank(kind) ==
    CASE kind = "indexed" -> 1 [] kind = "entry" -> 2 [] kind = "import" -> 3

\* the kind of the symbol the visitor saw last
LastKind == order[Len(order)].kind

\* Base lies in a module whose SymbolSource is open
SourceOpen ==
    \E i \in 1..Len(modules) :
        /\ modules[i].base <= en.Base
        /\ en.Base < modules[i].base + modules[i].size
        /\ modules[i].symbolsOpen

\* the entry point the directory records for the module of Base (0: none)
RecordedEntry ==
    IF \E i \in 1..Len(modules) :
           modules[i].base <= en.Base
           /\ en.Base < modules[i].base + modules[i].size
    THEN (CHOOSE m \in { modules[i] : i \in 1..Len(modules) } :
              m.base <= en.Base /\ en.Base < m.base + m.size).entry
    ELSE 0

\* text begins with "__imp_"
HasImportPrefix(text) == Len(text) >= 6 /\ SubSeq(text, 1, 6) = sImp

\* text contains "Ordinal"
HasOrdinal(text) ==
    \E k \in 1..Len(text) :
        k + 6 <= Len(text) /\ SubSeq(text, k, k + 6) = sOrdinal

\* C2: for a module with an open SymbolSource the visitor sees the indexed
\* symbols first, then the entry point pseudo-symbol (once if the module's
\* entry point is not zero, never otherwise), then the imports: nothing
\* indexed after the pseudo-symbol or an import, no import before the
\* pseudo-symbol.
C2_EnumerationOrder ==
    op = "enum" /\ SourceOpen =>
        /\ \A i, j \in 1..Len(order) :
              i < j => Rank(order[i].kind) <= Rank(order[j].kind)
        /\ Count("entry") <= 1
        /\ Count("import") > 0 \/ pc = "done" =>
              Count("entry") = IF RecordedEntry # 0 THEN 1 ELSE 0
        /\ Count("entry") > 0 \/ Count("import") > 0 \/ pc = "done" =>
              Count("indexed") = en.i - en.suppressed
        /\ pc = "done" => Count("import") = en.j

\* C2 witness: two indexed symbols, the pseudo-symbol and an import were
\* handed over, in that order.
C2_Witness ==
    /\ op = "enum" /\ pc = "done" /\ SourceOpen
    /\ [i \in 1..Len(order) |-> order[i].kind]
           = <<"indexed", "indexed", "entry", "import">>

C8_OrdinalSuppression ==
    [][ op = "enum" /\ pc = "indexed" /\ en'.i = en.i + 1 =>
            LET info     == en'.info
                withheld == /\ HasOrdinal(info.decoratedName)
                            /\ en.Base + info.addr = en.Base
            IN  /\ (order' = order) <=> withheld
                /\ ~withheld =>
                      /\ order' = Append(order, order'[Len(order')])
                      /\ order'[Len(order')].kind = "indexed"
                      /\ sym'.addr = en.Base + info.addr
                      /\ sym'.decoratedSymbol = info.decoratedName
                /\ withheld => pc' = "indexed" /\ en'.cbRet ]_vars

\* C8 witness: "Ordinal5" at the base was withheld, then "Ordinal5" 16
\* bytes further on was handed over.
C8_Witness ==
    /\ op = "enum" /\ pc = "indexed"
    /\ en.i = 2 /\ en.suppressed = 1 /\ en.lastDelivered
    /\ en.info.decoratedName = sOrdinal \o <<"5">> /\ en.info.addr = 16
    /\ sym.decoratedSymbol = sOrdinal \o <<"5">>
    /\ sym.addr = en.Base + 16

\* C9: every symbol handed to the visitor has a non-empty decorated name,
\* and a non-null undecorated field only when that field holds a non-empty
\* text that differs from the decorated name.
C9_Original ==
    op = "enum" /\ order # <<>> =>
        /\ ~sym.decoratedNull /\ sym.decoratedSymbol # <<>>
        /\ ~sym.undecoratedNull =>
              /\ sym.undecoratedSymbol # <<>>
              /\ sym.undecoratedSymbol # sym.decoratedSymbol

\* C10: a symbol of the import pass has isImported set, the entry point
\* pseudo-symbol has it clear, and an indexed symbol has it set exactly
\* when its decorated name begins with "__imp_".
C10_ImportedFlag ==
    op = "enum" /\ order # <<>> =>
        /\ LastKind = "import" => sym.isImported
        /\ LastKind = "entry" => ~sym.isImported
        /\ LastKind = "indexed" =>
              sym.isImported = HasImportPrefix(sym.decoratedSymbol)
        /\ LastKind = "indexed" /\ pc = "indexed" /\ en.lastDelivered =>
              sym.isImported = HasImportPrefix(en.info.decoratedName)

\* C10 witness: "__imp_f", whose two names are the same text, was handed
\* over as an import thunk with no undecorated name.
C10_Witness ==
    /\ op = "enum" /\ pc = "indexed" /\ en.lastDelivered
    /\ en.info.decoratedName = sImp \o <<"f">>
    /\ en.info.undecoratedName = en.info.decoratedName
    /\ sym.isImported /\ sym.undecoratedNull
    /\ sym.decoratedSymbol = sImp \o <<"f">>

\* C12: an indexed symbol whose decorated and undecorated names are the
\* same text reaches the visitor with a decorated field that is not null
\* and holds that text, and with a null undecorated field.
C12_SameNameCollapsed ==
    [][ /\ op = "enum" /\ pc = "indexed"
        /\ en'.i = en.i + 1 /\ en'.lastDelivered
        /\ en'.info.decoratedName = en'.info.undecoratedName
        => /\ order' = Append(order, order'[Len(order')])
           /\ order'[Len(order')].kind = "indexed"
           /\ ~sym'.decoratedNull
           /\ sym'.decoratedSymbol = en'.info.decoratedName
           /\ sym'.undecoratedNull ]_vars

\* C12 witness: "?f", yielded with "?f" as its undecorated name too, was
\* handed over with the name in the decorated field and no undecorated one.
C12_Witness ==
    /\ op = "enum" /\ pc = "indexed" /\ en.lastDelivered
    /\ en.info.decoratedName = <<"?","f">>
    /\ en.info.undecoratedName = <<"?","f">>
    /\ ~sym.decoratedNull /\ sym.decoratedSymbol = <<"?","f">>
    /\ sym.undecoratedNull /\ ~sym.isImported

\* the visitor is being called, or has just been called, for a kind
Visiting(kind) ==
    /\ Len(order') = Len(order) + 1
    /\ order' = Append(order, order'[Len(order')])
    /\ order'[Len(order')].kind = kind

\* C16: SymEnum holds LockModules (shared) from its first statement to the
\* return of enumSymbols and at no other time.  The lock is free before the
\* pseudo-symbol and the imports whichever way the lookup went, free at
\* every call of the visitor for them, held at every call for an indexed
\* symbol, and free at return.
C16_LockScope ==
    [][ op = "enum" =>
          /\ (pc' \in {"indexed", "release"}) <=> (LockModules' = 1)
          /\ (pc' \in {"call", "entry", "imports", "done"})
                 <=> (LockModules' = 0)
          /\ Visiting("entry") \/ Visiting("import") =>
                 LockModules = 0 /\ LockModules' = 0
          /\ Visiting("indexed") => LockModules = 1 /\ LockModules' = 1
          /\ pc = "call" => LockModules = 0 /\ LockModules' = 1
          /\ pc' = "entry" /\ pc # "entry" =>
                 pc = "release" /\ LockModules = 1 ]_vars

\* C16 witness: an indexed symbol, the pseudo-symbol and an import were
\* handed over and SymEnum has returned with the lock free.
C16_Witness ==
    /\ op = "enum" /\ pc = "done" /\ LockModules = 0
    /\ [i \in 1..Len(order) |-> order[i].kind]
           = <<"indexed", "entry", "import">>

\* C20: when Base lies in no module, or in one whose SymbolSource is not
\* open, no indexed symbol is handed over, and the other two passes run all
\* the same: the pseudo-symbol exactly when the entry point recorded for
\* Base is not zero, then every import.
C20_NoSourceStillEnumerates ==
    op = "enum" /\ ~SourceOpen =>
        /\ Count("indexed") = 0 /\ en.i = 0
        /\ pc # "indexed"
        /\ \A i, j \in 1..Len(order) :
              i < j => Rank(order[i].kind) <= Rank(order[j].kind)
        /\ Count("entry") <= 1
        /\ pc \in {"imports", "done"} =>
              Count("entry") = IF RecordedEntry # 0 THEN 1 ELSE 0
        /\ Count("import") = en.j
        /\ pc \in {"call", "release", "entry"} => order = <<>>

\* C20 witness: the SymbolSource of the module of Base is not open; the
\* pseudo-symbol and an import were handed over and nothing else.
C20_Witness ==
    /\ op = "enum" /\ pc = "done" /\ ~SourceOpen
    /\ modules # <<>> /\ RecordedEntry # 0
    /\ [i \in 1..Len(order) |-> order[i].kind] = <<"entry", "import">>

\* C20 second case, Base in no module: an import and nothing else.
C20_WitnessNoModule ==
    /\ op = "enum" /\ pc = "done" /\ modules = <<>>
    /\ [i \in 1..Len(order) |-> order[i].kind] = <<"import">>

(***************************************************************************)
(* SymGetSourceLine (lines 309-333).  arg holds the arguments, res the     *)
(* return value and the caller's three output cells.                       *)
(***************************************************************************)
MAX_STRING_SIZE == 512

\* a source file path that does not fit FileName[MAX_STRING_SIZE]
LongSourceFile == [i \in 1..MAX_STRING_SIZE |-> "p"]

\* the line records a SymbolSource may hold, at most one for an rva
LineEntries ==
    { [rva |-> 0, lineNumber |-> 3, sourceFile |-> <<"m",".","c">>],
      [rva |-> 0, lineNumber |-> 9, sourceFile |-> LongSourceFile],
      [rva |-> 16, lineNumber |-> 7, sourceFile |-> <<"a",".","c">>],
      [rva |-> 16, lineNumber |-> 5, sourceFile |-> <<"m",".","c">>] }

LineTables ==
    { t \in SUBSET LineEntries :
        \A a, b \in t : a.rva = b.rva => a = b }

\* the module SymGetSourceLine may find: without a SymbolSource, with the
\* empty one, with one that is not open (and holds no line), or with an
\* open one
SourceLineModules ==
    { [ModuleAt(1) EXCEPT !.symbols = p, !.symbolsOpen = FALSE] :
        p \in {"null", "empty", "source"} } \cup
    { [ModuleAt(1) EXCEPT !.lines = t] : t \in LineTables }

SourceLineDirectories ==
    { <<>> } \cup { <<m>> : m \in SourceLineModules }

\* addresses asked for: in the module at rva 0, 16 and 32, and in no module
CipInputs ==
    { ModuleAt(1).base, ModuleAt(1).base + 16, ModuleAt(1).base + 32, 4096 }

ArgsSourceLine ==
    [fn : {"SymGetSourceLine"}, Cip : CipInputs,
     FileNameNull : BOOLEAN, LineNull : BOOLEAN, dispNull : BOOLEAN]

\* what the caller's output cells hold before the call
CallerCells ==
    [ret |-> FALSE, FileName |-> <<"?">>, Line |-> -1, disp |-> 77]

\* a record whose memory is no longer mapped
Unmapped == [ModuleAt(1) EXCEPT !.symbols = "unmapped"]

\* what reading through a MODINFO pointer yields: the record while the
\* module is loaded; after its unload the read faults or yields anything
ModInfoAt(ptr) ==
    IF \E i \in 1..Len(modules) : modules[i].base = ptr
    THEN { modules[i] : i \in { j \in 1..Len(modules) :
                                   modules[j].base = ptr } }
    ELSE SourceLineModules \cup { Unmapped }

\* findSourceLineInfo(rva, lineInfo) on the source of record m
findSourceLineInfo(m, rva) ==
    IF \E l \in m.lines : l.rva = rva
    THEN [found |-> TRUE, info |-> CHOOSE l \in m.lines : l.rva = rva]
    ELSE [found |-> FALSE,
          info |-> [rva |-> rva, lineNumber |-> 0, sourceFile |-> <<>>]]

\* strcpy_s(dest, cap, src) returns normally only when src and its
\* terminator fit; otherwise dest is emptied and the invalid parameter
\* handler runs
strcpy_s_fits(cap, src) == Len(src) < cap

\* the success path with *disp left as it was
SourceLineOutputs_DispKept(a, cells, info) ==
    [ret |-> strcpy_s_fits(MAX_STRING_SIZE, info.sourceFile)
                 \/ a.FileNameNull,
     disp |-> cells.disp,
     Line |-> IF a.LineNull THEN cells.Line ELSE info.lineNumber,
     FileName |-> IF a.FileNameNull THEN cells.FileName
                  ELSE IF strcpy_s_fits(MAX_STRING_SIZE, info.sourceFile)
                  THEN info.sourceFile ELSE <<>>]

\* lines 323-332: the cells after the three guarded writes; ret is TRUE
\* when line 332 is reached
SourceLineOutputs(a, cells, info) ==
    [ret |-> strcpy_s_fits(MAX_STRING_SIZE, info.sourceFile)
                 \/ a.FileNameNull,
     disp |-> IF a.dispNull THEN cells.disp ELSE 0,
     Line |-> IF a.LineNull THEN cells.Line ELSE info.lineNumber,
     FileName |-> IF a.FileNameNull THEN cells.FileName
                  ELSE IF strcpy_s_fits(MAX_STRING_SIZE, info.sourceFile)
                  THEN info.sourceFile ELSE <<>>]

\* line 319: Cip - modInfo->base
RelativeAddress(Cip, base) == Cip - base

\* lines 311-313: ModInfoFromAddr(Cip); no lock is taken
SlLookup ==
    /\ op = "sourceline" /\ pc = "call"
    /\ LET i == ModIndexFromAddr(arg.Cip)
       IN  IF i = 0
           THEN sl' = sl /\ pc' = "done"
           ELSE sl' = [sl EXCEPT !.modInfo = modules[i].base]
                /\ pc' = "symbols"
    /\ UNCHANGED <<op, arg, res, modules, downloadVars, enumVars,
                   publishVars>>

\* lines 315-317: sym = modInfo->symbols and its two tests
SlSymbols ==
    /\ op = "sourceline" /\ pc = "symbols"
    /\ \E r \in ModInfoAt(sl.modInfo) :
          /\ sl' = [sl EXCEPT !.sym = r.symbols]
          /\ pc' = CASE r.symbols = "unmapped"          -> "fault"
                     [] r.symbols \in {"null", "empty"} -> "done"
                     [] OTHER                           -> "find"
    /\ UNCHANGED <<op, arg, res, modules, downloadVars, enumVars,
                   publishVars>>

\* lines 319-332: findSourceLineInfo, the outputs, the return
SlFind ==
    /\ op = "sourceline" /\ pc = "find"
    /\ \E r \in ModInfoAt(sl.modInfo) :
          LET f == findSourceLineInfo(r, RelativeAddress(arg.Cip, r.base))
              o == SourceLineOutputs(arg, res, f.info)
          IN  IF r.symbols = "unmapped"
              THEN res' = res /\ pc' = "fault"
              ELSE IF ~f.found
              THEN res' = res /\ pc' = "done"
              ELSE res' = o /\ pc' = IF o.ret THEN "done" ELSE "aborted"
    /\ UNCHANGED <<op, arg, sl, modules, downloadVars, enumVars,
                   publishVars>>

InitSourceLine ==
    /\ op = "sourceline" /\ pc = "call"
    /\ modules \in SourceLineDirectories
    /\ arg \in ArgsSourceLine
    /\ res = CallerCells
    /\ sl = [modInfo |-> 0, sym |-> "unread"]
    /\ DownloadIdle /\ EnumIdle /\ PublishIdle

NextSourceLine ==
    \/ SlLookup
    \/ SlSymbols
    \/ SlFind

SpecSourceLine == InitSourceLine /\ [][NextSourceLine]_vars

\* the caller's cells are as they were before the call
CellsUntouched ==
    /\ res.FileName = CallerCells.FileName
    /\ res.Line = CallerCells.Line
    /\ res.disp = CallerCells.disp

C13_WitnessNotOpen ==
    /\ op = "sourceline" /\ pc = "done" /\ ~res.ret
    /\ modules # <<>> /\ modules[1].symbols = "source"
    /\ ~modules[1].symbolsOpen /\ sl.sym = "source"
    /\ CellsUntouched

(***************************************************************************)
(* SymEnum and SymGetSourceLine with a module unload on another thread.    *)
(***************************************************************************)
\* the directory drops a module, under the exclusive lock: no shared holder
ModUnload ==
    /\ op \in {"enum", "sourceline"}
    /\ LockModules = 0
    /\ \E i \in 1..Len(modules) :
          modules' = [j \in 1..(Len(modules) - 1) |->
                         IF j < i THEN modules[j] ELSE modules[j + 1]]
    /\ UNCHANGED <<op, pc, resolveVars, downloadVars, enumVars,
                   sourceLineVars, publishVars>>

InitUnload == InitEnum \/ InitSourceLine

NextUnload == NextEnum \/ NextSourceLine \/ ModUnload

SpecUnload == InitUnload /\ [][NextUnload]_vars

\* the module record an operation has looked up and has yet to use: its
\* base, or 0 when it holds none
HeldRecord ==
    CASE op = "enum" /\ pc = "indexed"                   -> en.Base
      [] op = "sourceline" /\ pc \in {"symbols", "find"} -> sl.modInfo
      [] OTHER                                           -> 0

\* C19: an operation that has looked up a module record and is still to
\* use it holds LockModules in shared mode, and the module is still in the
\* directory: no unload has come in between.
C19_Original ==
    HeldRecord # 0 =>
        /\ LockModules > 0
        /\ \E i \in 1..Len(modules) : modules[i].base = HeldRecord

(***************************************************************************)
(* The operations together: one call of one of them.                       *)
(***************************************************************************)
Init == InitResolve \/ InitDownload \/ InitEnum \/ InitPublish
            \/ InitSourceLine

Next == NextResolve \/ NextDownload \/ NextEnum \/ NextPublish
            \/ NextSourceLine

Spec == Init /\ [][Next]_vars

====
